---- MODULE Spec2Model ----
(***************************************************************************)
(* Model of DataQualityValidator (src/src1/DataQualityValidators.py).     *)
(*                                                                         *)
(* The validator holds a pandas DataFrame (self.df) and a dict of check   *)
(* results (self.validation_results).  Four check methods read the frame  *)
(* and write one key of the dict each; get_validation_summary reads the   *)
(* dict.  The frame is modelled column-wise: every column has a numpy     *)
(* dtype and a sequence of cells.  Floats are modelled by exact rationals *)
(* <<numerator, denominator>>, with NaN a distinct value that makes every *)
(* ordering comparison false, as IEEE-754 and pandas do.                  *)
(***************************************************************************)
EXTENDS Integers, Sequences, FiniteSets, TLC

VARIABLES df, validation_results, call, lastArgs, summary

vars == <<df, validation_results, call, lastArgs, summary>>

----------------------------------------------------------------------------
(* Bounds of the explored inputs.                                          *)

MaxRows == 3
MaxVal == 2
MaxSessionRows == 2

----------------------------------------------------------------------------
(* Optional values: None is the empty tuple, Some(v) the 1-tuple.          *)

None == << >>
Some(v) == <<v>>

(* A missing cell (NaN, None, NaT).                                        *)
NA == None

(* Float NaN, the result of 0/0 and of statistics over too few values.     *)
NaN == <<0, 0>>

RECURSIVE GCD(_, _)
GCD(a, b) == IF b = 0 THEN a ELSE GCD(b, a % b)

Abs(x) == IF x < 0 THEN -x ELSE x

(* Float division of two integers; n / 0 with n = 0 is NaN (numpy).        *)
Div(n, d) ==
    IF d = 0 THEN NaN
    ELSE LET g == GCD(Abs(n), Abs(d)) IN <<n \div g, d \div g>>

(* x >= y in place of x > y.                                               *)
Gt_OrEqual(x, y) == x # NaN /\ y # NaN /\ x[1] * y[2] >= y[1] * x[2]

(* x > y on floats; false when either side is NaN.                         *)
Gt(x, y) == x # NaN /\ y # NaN /\ x[1] * y[2] > y[1] * x[2]

----------------------------------------------------------------------------
(* The DataFrame.                                                          *)

Columns == <<"A", "B">>

ColSet == {Columns[i] : i \in 1..Len(Columns)}

(* Column names a caller may pass; "Z" is never a column of the frame.     *)
Names == ColSet \cup {"Z"}

(* numpy dtypes by kind: i integer, f float, b bool, O object (text),      *)
(* M datetime64.                                                           *)
Int64 == [kind |-> "i", bits |-> 64]
Float64 == [kind |-> "f", bits |-> 64]
Bool == [kind |-> "b", bits |-> 8]
Object == [kind |-> "O", bits |-> 64]
Datetime64 == [kind |-> "M", bits |-> 64]

(* Cells a column of the dtype can hold: int64 and bool have no missing    *)
(* value; bool holds 0/1; object cells are string codes; datetime cells    *)
(* are epoch offsets.                                                      *)
CellsOf(dtype, maxVal) ==
    CASE dtype.kind = "i" -> {Some(v) : v \in 0..maxVal}
      [] dtype.kind = "f" -> {NA} \cup {Some(v) : v \in 0..maxVal}
      [] dtype.kind = "b" -> {Some(0), Some(1)}
      [] dtype.kind = "O" -> {NA, Some(0)}
      [] OTHER -> {NA, Some(0)}

(* The columns of n rows with a dtype of dtypes: every choice of cells,    *)
(* or only the columns whose cells are all alike.                          *)
ColumnsOf(dtypes, n, maxVal) ==
    UNION { { [dtype |-> d, cells |-> v] : v \in [1..n -> CellsOf(d, maxVal)] } :
            d \in dtypes }

UniformColumnsOf(dtypes, n) ==
    UNION { { [dtype |-> d, cells |-> [i \in 1..n |-> c]] : c \in CellsOf(d, 0) } :
            d \in dtypes }

(* The frame with columns a and b under the names of Columns.              *)
Frame(a, b) ==
    [dtypes |-> (Columns[1] :> a.dtype @@ Columns[2] :> b.dtype),
     data |-> (Columns[1] :> a.cells @@ Columns[2] :> b.cells)]

(* len(self.df)                                                            *)
len(frame) == Len(frame.data[Columns[1]])

(* str(dtype)                                                              *)
DtypeStr(dtype) ==
    CASE dtype.kind = "i" -> "int64"
      [] dtype.kind = "f" -> "float64"
      [] dtype.kind = "b" -> "bool"
      [] dtype.kind = "O" -> "object"
      [] OTHER -> "datetime64[ns]"

(* pd.api.types.is_numeric_dtype: np.number or np.bool_.                   *)
is_numeric_dtype(dtype) == dtype.kind \in {"i", "u", "f", "c", "b"}

----------------------------------------------------------------------------
(* The result dict: a function whose domain is the set of keys present.    *)

CheckIds == {"missing_values", "duplicates", "outliers", "schema"}

(* A fresh dict with the one key in place of an update.                    *)
SetItem_Replace(d, key, value) == [k \in {key} |-> value]

(* d[key] = value                                                          *)
SetItem(d, key, value) ==
    [k \in DOMAIN d \cup {key} |-> IF k = key THEN value ELSE d[k]]

(* The most recent call: its name, arguments and outcome ("return" or the  *)
(* exception raised), with the returned value wrapped in Some.             *)
NoCall == [op |-> "none", args |-> None, outcome |-> "none", value |-> None]

Returned(op, args, value) ==
    [op |-> op, args |-> args, outcome |-> "return", value |-> Some(value)]

Raised(op, args, exc) ==
    [op |-> op, args |-> args, outcome |-> exc, value |-> None]

----------------------------------------------------------------------------
(* check_missing_values                                                    *)

(* self.df.isnull().sum()                                                  *)
NullCount(frame, c) ==
    Cardinality({i \in 1..len(frame) : frame.data[c][i] = NA})

(* self.df.isnull().sum() / len(self.df)                                   *)
missing_pct(frame) ==
    [c \in ColSet |-> Div(NullCount(frame, c), len(frame))]

(* missing_pct[missing_pct > threshold].to_dict()                          *)
problematic_cols(frame, threshold) ==
    LET pct == missing_pct(frame)
        flagged == {c \in ColSet : Gt(pct[c], threshold)}
    IN  [c \in flagged |-> pct[c]]

MissingResult(frame, threshold) ==
    LET cols == problematic_cols(frame, threshold)
    IN  [status |-> DOMAIN cols = {}, details |-> cols]

check_missing_values(threshold) ==
    LET cols == problematic_cols(df, threshold)
    IN  /\ validation_results' =
               SetItem(validation_results, "missing_values",
                       [status |-> DOMAIN cols = {}, details |-> cols])
        /\ call' = Returned("check_missing_values", <<threshold>>, cols)
        /\ lastArgs' = [lastArgs EXCEPT !["missing_values"] = Some(<<threshold>>)]
        /\ UNCHANGED <<df, summary>>

----------------------------------------------------------------------------
(* check_duplicates                                                        *)

(* keep=False in place of keep='first': every member of a group of equal   *)
(* rows is marked.                                                         *)
duplicated_KeepFalse(frame, cols) ==
    {i \in 1..len(frame) :
        \E j \in (1..len(frame)) \ {i} :
            \A c \in cols : frame.data[c][j] = frame.data[c][i]}

(* DataFrame.duplicated(subset, keep='first') marks row i when an earlier  *)
(* row agrees with it on every column of cols; missing cells compare       *)
(* equal to each other.                                                    *)
duplicated(frame, cols) ==
    {i \in 1..len(frame) :
        \E j \in 1..(i - 1) :
            \A c \in cols : frame.data[c][j] = frame.data[c][i]}

SeqRange(s) == {s[i] : i \in 1..Len(s)}

(* The columns DataFrame.duplicated looks at: all of them for subset=None. *)
SubsetCols(subset) ==
    IF subset = None THEN ColSet ELSE SeqRange(subset[1])

(* DataFrame.duplicated returns an empty Series for an empty frame before  *)
(* it looks at subset; otherwise a name of subset that is not a column     *)
(* raises KeyError.                                                        *)
DuplicatedRaises(frame, subset) ==
    /\ len(frame) # 0
    /\ ~(SubsetCols(subset) \subseteq ColSet)

duplicate_count(frame, subset) ==
    IF len(frame) = 0 THEN 0
    ELSE Cardinality(duplicated(frame, SubsetCols(subset)))

DuplicatesResult(frame, subset) ==
    LET n == duplicate_count(frame, subset)
    IN  [status |-> n = 0, details |-> [duplicate_count |-> n]]

check_duplicates(subset) ==
    IF DuplicatedRaises(df, subset)
    THEN /\ call' = Raised("check_duplicates", <<subset>>, "KeyError")
         /\ UNCHANGED <<df, validation_results, lastArgs, summary>>
    ELSE LET n == duplicate_count(df, subset)
         IN  /\ validation_results' =
                    SetItem(validation_results, "duplicates",
                            [status |-> n = 0,
                             details |-> [duplicate_count |-> n]])
             /\ call' = Returned("check_duplicates", <<subset>>, n)
             /\ lastArgs' = [lastArgs EXCEPT !["duplicates"] = Some(<<subset>>)]
             /\ UNCHANGED <<df, summary>>

----------------------------------------------------------------------------
(* check_outliers                                                          *)

(* The values of the non-missing cells of a column, by row.                *)
Present(frame, c) == {i \in 1..len(frame) : frame.data[c][i] # NA}

RECURSIVE SumOver(_, _, _)
SumOver(frame, c, rows) ==
    IF rows = {} THEN 0
    ELSE LET i == CHOOSE r \in rows : TRUE
         IN  frame.data[c][i][1] + SumOver(frame, c, rows \ {i})

(* Series.mean(): skips missing cells; NaN when none is left.              *)
mean(frame, c) ==
    LET rows == Present(frame, c)
        n == Cardinality(rows)
    IN  IF n = 0 THEN NaN ELSE <<SumOver(frame, c, rows), n>>

RECURSIVE SumSqDev(_, _, _, _, _)
SumSqDev(frame, c, rows, n, s) ==
    IF rows = {} THEN 0
    ELSE LET i == CHOOSE r \in rows : TRUE
             d == n * frame.data[c][i][1] - s
         IN  d * d + SumSqDev(frame, c, rows \ {i}, n, s)

(* The square of Series.std() (ddof = 1), as the rational                  *)
(* sum((n*x - sum)^2) / (n^2 * (n - 1)); NaN with fewer than 2 values.     *)
variance(frame, c) ==
    LET rows == Present(frame, c)
        n == Cardinality(rows)
        s == SumOver(frame, c, rows)
    IN  IF n < 2 THEN NaN
        ELSE <<SumSqDev(frame, c, rows, n, s), n * n * (n - 1)>>

(* a >= k * sqrt(v) in place of a > k * sqrt(v).                           *)
GtScaledSqrt_Inclusive(a, k, v) ==
    LET lhs == a[1] * a[1] * k[2] * k[2] * v[2]
        rhs == k[1] * k[1] * v[1] * a[2] * a[2]
    IN  IF k[1] >= 0 \/ v[1] = 0
        THEN a[1] >= 0 /\ lhs >= rhs
        ELSE a[1] >= 0 \/ lhs <= rhs

(* a > k * sqrt(v) for rationals a, k and v >= 0, decided on the squares.  *)
GtScaledSqrt(a, k, v) ==
    LET lhs == a[1] * a[1] * k[2] * k[2] * v[2]
        rhs == k[1] * k[1] * v[1] * a[2] * a[2]
    IN  IF k[1] >= 0 \/ v[1] = 0
        THEN a[1] > 0 /\ lhs > rhs
        ELSE a[1] >= 0 \/ lhs < rhs

(* (x < mean - n_std * std) | (x > mean + n_std * std); a comparison with  *)
(* a NaN operand is false.                                                 *)
IsOutlier(cell, m, v, n_std) ==
    /\ cell # NA
    /\ m # NaN
    /\ v # NaN
    /\ LET x == cell[1]
       IN  \/ GtScaledSqrt(<<m[1] - x * m[2], m[2]>>, n_std, v)
           \/ GtScaledSqrt(<<x * m[2] - m[1], m[2]>>, n_std, v)

RECURSIVE Ascending(_)
Ascending(S) ==
    IF S = {} THEN << >>
    ELSE LET hi == CHOOSE x \in S : \A y \in S : y <= x
         IN  Append(Ascending(S \ {hi}), hi)

(* The index labels (RangeIndex, from 0) of the outlier rows, in row order.*)
outlier_idx(frame, c, n_std) ==
    LET m == mean(frame, c)
        v == variance(frame, c)
    IN  Ascending({i - 1 : i \in {r \in 1..len(frame) :
                                     IsOutlier(frame.data[c][r], m, v, n_std)}})

KeyError == [exc |-> "KeyError"]

(* The loop over columns: self.df[col] raises KeyError at the first name   *)
(* that is not a column; a non-numeric column adds no entry.               *)
RECURSIVE OutlierLoop(_, _, _, _, _)
OutlierLoop(frame, columns, n_std, i, outliers) ==
    IF i > Len(columns) THEN outliers
    ELSE LET col == columns[i]
         IN  IF col \notin ColSet THEN KeyError
             ELSE IF is_numeric_dtype(frame.dtypes[col])
             THEN OutlierLoop(frame, columns, n_std, i + 1,
                      SetItem(outliers, col, outlier_idx(frame, col, n_std)))
             ELSE OutlierLoop(frame, columns, n_std, i + 1, outliers)

OutliersResult(frame, columns, n_std) ==
    LET outliers == OutlierLoop(frame, columns, n_std, 1, << >>)
    IN  [status |-> \A c \in DOMAIN outliers : Len(outliers[c]) = 0,
         details |-> outliers]

check_outliers(columns, n_std) ==
    LET outliers == OutlierLoop(df, columns, n_std, 1, << >>)
    IN  IF outliers = KeyError
        THEN /\ call' = Raised("check_outliers", <<columns, n_std>>, "KeyError")
             /\ UNCHANGED <<df, validation_results, lastArgs, summary>>
        ELSE /\ validation_results' =
                    SetItem(validation_results, "outliers",
                            [status |-> \A c \in DOMAIN outliers :
                                            Len(outliers[c]) = 0,
                             details |-> outliers])
             /\ call' = Returned("check_outliers", <<columns, n_std>>, outliers)
             /\ lastArgs' = [lastArgs EXCEPT !["outliers"] = Some(<<columns, n_std>>)]
             /\ UNCHANGED <<df, summary>>

----------------------------------------------------------------------------
(* validate_schema                                                         *)

(* A column of expected_schema that the frame lacks is passed over.        *)
RECURSIVE SchemaLoop_SkipAbsent(_, _, _, _)
SchemaLoop_SkipAbsent(frame, expected_schema, i, mismatched_cols) ==
    IF i > Len(expected_schema) THEN mismatched_cols
    ELSE LET col == expected_schema[i][1]
             expected_type == expected_schema[i][2]
         IN  IF col \in ColSet /\ DtypeStr(frame.dtypes[col]) # expected_type
             THEN SchemaLoop_SkipAbsent(frame, expected_schema, i + 1,
                                        Append(mismatched_cols, col))
             ELSE SchemaLoop_SkipAbsent(frame, expected_schema, i + 1,
                                        mismatched_cols)

(* expected_schema is a dict: a sequence of <<name, type string>> items    *)
(* with distinct names, in insertion order.                                *)
RECURSIVE SchemaLoop(_, _, _, _)
SchemaLoop(frame, expected_schema, i, mismatched_cols) ==
    IF i > Len(expected_schema) THEN mismatched_cols
    ELSE LET col == expected_schema[i][1]
             expected_type == expected_schema[i][2]
         IN  IF col \in ColSet
             THEN IF DtypeStr(frame.dtypes[col]) # expected_type
                  THEN SchemaLoop(frame, expected_schema, i + 1,
                                  Append(mismatched_cols, col))
                  ELSE SchemaLoop(frame, expected_schema, i + 1, mismatched_cols)
             ELSE SchemaLoop(frame, expected_schema, i + 1,
                             Append(mismatched_cols, col))

SchemaResult(frame, expected_schema) ==
    LET mismatched_cols == SchemaLoop(frame, expected_schema, 1, << >>)
    IN  [status |-> Len(mismatched_cols) = 0,
         details |-> [mismatched_columns |-> mismatched_cols]]

validate_schema(expected_schema) ==
    LET mismatched_cols == SchemaLoop(df, expected_schema, 1, << >>)
    IN  /\ validation_results' =
               SetItem(validation_results, "schema",
                       [status |-> Len(mismatched_cols) = 0,
                        details |-> [mismatched_columns |-> mismatched_cols]])
        /\ call' = Returned("validate_schema", <<expected_schema>>, mismatched_cols)
        /\ lastArgs' = [lastArgs EXCEPT !["schema"] = Some(<<expected_schema>>)]
        /\ UNCHANGED <<df, summary>>

----------------------------------------------------------------------------
(* get_validation_summary                                                  *)

(* any() in place of all().                                                *)
AllStatus_Any(d) == \E k \in DOMAIN d : d[k].status

(* all(check['status'] for check in d.values())                            *)
AllStatus(d) == \A k \in DOMAIN d : d[k].status

(* The only dict object of the validator; a summary's 'checks' field holds *)
(* a reference to it, not a copy.                                          *)
ResultsRef == "self.validation_results"

Deref(ref) == validation_results

(* The returned dict, without its timestamp (wall-clock time, which no     *)
(* other field depends on).                                                *)
ValidationSummary ==
    [total_rows |-> len(df),
     total_columns |-> Len(Columns),
     checks |-> ResultsRef,
     overall_status |-> AllStatus(validation_results)]

get_validation_summary ==
    /\ summary' = Some(ValidationSummary)
    /\ call' = Returned("get_validation_summary", None, ValidationSummary)
    /\ UNCHANGED <<df, validation_results, lastArgs>>

----------------------------------------------------------------------------
(* Specifications.                                                         *)

ADtypes == {Int64, Float64, Bool}
BDtypes == {Object, Bool, Datetime64}

InitWith(frames) ==
    /\ df \in frames
    /\ validation_results = << >>
    /\ call = NoCall
    /\ lastArgs = [k \in CheckIds |-> None]
    /\ summary = None

(* The specifications of one check apply it once to every frame.           *)
FirstCall == call.op = "none"

Thresholds ==
    {<<0, 1>>, <<1, 3>>, <<1, 2>>, <<2, 3>>, <<1, 1>>, <<-1, 2>>, <<3, 2>>}

InitMissing ==
    InitWith(UNION { { Frame(a, b) : a \in ColumnsOf(ADtypes, n, 0),
                                     b \in ColumnsOf(BDtypes, n, 0) } :
                     n \in 0..MaxRows })

NextMissing == FirstCall /\ \E t \in Thresholds : check_missing_values(t)

SpecMissing == InitMissing /\ [][NextMissing]_vars

Subsets ==
    {None, Some(<<"A">>), Some(<<"B">>), Some(<<"A", "B">>), Some(<<"B", "B">>),
     Some(<<"Z">>), Some(<<"A", "Z">>)}

InitDuplicates ==
    InitWith(UNION { { Frame(a, b) : a \in ColumnsOf(ADtypes, n, 1),
                                     b \in ColumnsOf(BDtypes, n, 1) } :
                     n \in 0..MaxRows })

NextDuplicates == FirstCall /\ \E s \in Subsets : check_duplicates(s)

SpecDuplicates == InitDuplicates /\ [][NextDuplicates]_vars

ColumnLists ==
    {<<"A">>, <<"B">>, <<"B", "A">>, <<"A", "A">>, <<"A", "Z">>, <<"Z", "A">>, << >>}

NStds == {<<0, 1>>, <<1, 2>>, <<1, 1>>, <<3, 1>>, <<-1, 1>>}

InitOutliers ==
    InitWith(UNION { { Frame(a, b) : a \in ColumnsOf(ADtypes, n, MaxVal),
                                     b \in UniformColumnsOf(BDtypes, n) } :
                     n \in 0..MaxRows })

NextOutliers ==
    FirstCall /\ \E c \in ColumnLists, k \in NStds : check_outliers(c, k)

SpecOutliers == InitOutliers /\ [][NextOutliers]_vars

TypeStrings == {"int64", "int32", "float64", "object", "bool", "datetime64[ns]"}

(* Dicts over Names with at most MaxSchema items, in every key order.      *)
MaxSchema == 2

Schemas ==
    UNION { {e \in [1..n -> Names \X TypeStrings] :
                \A i, j \in 1..n : i # j => e[i][1] # e[j][1]} :
            n \in 0..MaxSchema }

InitSchema ==
    InitWith(UNION { { Frame(a, b) : a \in UniformColumnsOf(ADtypes, n),
                                     b \in UniformColumnsOf(BDtypes, n) } :
                     n \in 0..MaxRows })

NextSchema == FirstCall /\ \E e \in Schemas : validate_schema(e)

SpecSchema == InitSchema /\ [][NextSchema]_vars

(* A session: any sequence of calls on one validator.                      *)
SessionThresholds == {<<0, 1>>, <<1, 2>>, <<-1, 2>>}

SessionSubsets == {None, Some(<<"A", "Z">>)}

SessionColumnLists == {<<"A">>, <<"A", "Z">>}

SessionNStds == {<<0, 1>>, <<3, 1>>}

SessionSchemas ==
    {<<<<"A", "float64">>>>, <<<<"A", "float64">>, <<"B", "str">>>>}

(* A session's frame: a float column with cells NaN, 0, 1 and a text       *)
(* column that is all present or all missing.                              *)
SessionFrames ==
    UNION { { Frame(a, b) : a \in ColumnsOf({Float64}, n, 1),
                            b \in UniformColumnsOf({Object}, n) } :
            n \in 0..MaxSessionRows }

Init == InitWith(SessionFrames)

Next ==
    \/ \E t \in SessionThresholds : check_missing_values(t)
    \/ \E s \in SessionSubsets : check_duplicates(s)
    \/ \E c \in SessionColumnLists, k \in SessionNStds : check_outliers(c, k)
    \/ \E e \in SessionSchemas : validate_schema(e)
    \/ get_validation_summary

Spec == Init /\ [][Next]_vars

(* Out-of-range parameters against an existing store.                      *)
InitRange == InitWith(SessionFrames)

NextRange ==
    \/ \E t \in Thresholds : check_missing_values(t)
    \/ \E k \in NStds : check_outliers(<<"A">>, k)

SpecRange == InitRange /\ [][NextRange]_vars

----------------------------------------------------------------------------
(* Properties.                                                             *)

IsCheckCall(op) == call.op = op /\ call.outcome = "return"

(* C1: the overall_status returned by get_validation_summary is the AND of *)
(* the statuses in the store: true for the empty store, false when some    *)
(* stored entry failed, true when every stored entry passed.               *)
C1_OverallStatusIsConjunction ==
    call.op = "get_validation_summary" =>
        LET overall == call.value[1].overall_status
            failing == {k \in DOMAIN validation_results :
                           ~validation_results[k].status}
        IN  /\ DOMAIN validation_results = {} => overall
            /\ failing # {} => ~overall
            /\ failing = {} => overall

C1_Witness ==
    /\ call.op = "get_validation_summary"
    /\ ~call.value[1].overall_status
    /\ \E k \in DOMAIN validation_results : validation_results[k].status
    /\ \E k \in DOMAIN validation_results : ~validation_results[k].status

(* The result each check stores for given arguments.                       *)
ResultOf(k, args) ==
    CASE k = "missing_values" -> MissingResult(df, args[1])
      [] k = "duplicates" -> DuplicatesResult(df, args[1])
      [] k = "outliers" -> OutliersResult(df, args[1], args[2])
      [] OTHER -> SchemaResult(df, args[1])

StoreHoldsLastResults ==
    \A k \in CheckIds :
        IF lastArgs[k] = None
        THEN k \notin DOMAIN validation_results
        ELSE /\ k \in DOMAIN validation_results
             /\ validation_results[k] = ResultOf(k, lastArgs[k][1])

KeyOf(op) ==
    CASE op = "check_missing_values" -> "missing_values"
      [] op = "check_duplicates" -> "duplicates"
      [] op = "check_outliers" -> "outliers"
      [] op = "validate_schema" -> "schema"
      [] OTHER -> "none"

OnlyOwnKeyWritten ==
    /\ df' = df
    /\ \A k \in CheckIds \ {KeyOf(call'.op)} :
          /\ k \in DOMAIN validation_results' <=> k \in DOMAIN validation_results
          /\ k \in DOMAIN validation_results =>
                 validation_results'[k] = validation_results[k]

(* C2: the store holds, for each check, exactly the result of its most     *)
(* recent successful call and nothing for a check never run, whatever the  *)
(* order of the calls; a call writes only its own key and leaves the       *)
(* other entries and the frame unchanged.                                  *)
C2_StoreIsLastWritePerCheck ==
    [](StoreHoldsLastResults) /\ [][OnlyOwnKeyWritten]_vars

C2_Witness ==
    /\ DOMAIN validation_results = CheckIds
    /\ call.op = "check_missing_values"
    /\ ~validation_results["missing_values"].status
    /\ validation_results["schema"].status
    /\ ~validation_results["outliers"].status

InRange01(t) == t[1] >= 0 /\ t[1] <= t[2]

(* C3: for a threshold in [0, 1], check_missing_values returns and stores  *)
(* exactly the columns with null_count / total_rows > threshold (fraction  *)
(* 0 for a frame without rows), each with that fraction; status is true    *)
(* iff none is flagged.                                                    *)
C3_MissingFlagsStrictlyAbove ==
    (IsCheckCall("check_missing_values") /\ InRange01(call.args[1])) =>
        LET t == call.args[1]
            result == call.value[1]
            rows == Len(df.data["A"])
            nulls(c) == Cardinality({i \in 1..rows : Len(df.data[c][i]) = 0})
            above(c) == rows > 0 /\ nulls(c) * t[2] > t[1] * rows
        IN  /\ DOMAIN result = {c \in ColSet : above(c)}
            /\ \A c \in DOMAIN result :
                   result[c][2] > 0 /\ result[c][1] * rows = nulls(c) * result[c][2]
            /\ validation_results["missing_values"].details = result
            /\ validation_results["missing_values"].status <=> DOMAIN result = {}

(* One column exactly at the threshold (not flagged), the other above it.  *)
C3_Witness ==
    /\ IsCheckCall("check_missing_values")
    /\ call.args[1] = <<1, 3>>
    /\ len(df) = 3
    /\ NullCount(df, "A") = 1
    /\ NullCount(df, "B") = 2
    /\ DOMAIN call.value[1] = {"B"}

NumericCategory(dtype) == dtype.kind \in {"i", "f"}

(* C5: for n_std >= 0 and a requested numeric column, a row index is       *)
(* listed iff the column has at least 2 non-missing values, non-zero       *)
(* variance and the row's value is strictly outside mean +- n_std * std,   *)
(* i.e. (x - mean)^2 > n_std^2 * variance; the list is ascending; with     *)
(* n_std = 0 exactly the rows whose value differs from the mean are listed.*)
C5_OutliersStrictlyOutsideBand ==
    (IsCheckCall("check_outliers") /\ call.args[2][1] >= 0) =>
        \A c \in {call.args[1][i] : i \in 1..Len(call.args[1])} :
            NumericCategory(df.dtypes[c]) =>
                LET k == call.args[2]
                    listed == call.value[1][c]
                    rows == Len(df.data[c])
                    have == {i \in 1..rows : Len(df.data[c][i]) = 1}
                    n == Cardinality(have)
                    s == SumOver(df, c, have)
                    q == SumSqDev(df, c, have, n, s)
                    dev(i) == n * df.data[c][i][1] - s
                    outside(i) ==
                        /\ i \in have
                        /\ n >= 2
                        /\ q # 0
                        /\ dev(i) * dev(i) * (n - 1) * k[2] * k[2] > k[1] * k[1] * q
                IN  /\ c \in DOMAIN call.value[1]
                    /\ \A i \in 1..rows :
                          (\E j \in 1..Len(listed) : listed[j] = i - 1)
                              <=> outside(i)
                    /\ \A i, j \in 1..Len(listed) : i < j => listed[i] < listed[j]
                    /\ k[1] = 0 =>
                          \A i \in 1..rows :
                              (\E j \in 1..Len(listed) : listed[j] = i - 1)
                                  <=> (i \in have /\ dev(i) # 0)
                    /\ validation_results["outliers"].details[c] = listed

(* Values 0, 1, 2 with n_std = 1: mean 1, std 1, so 0 and 2 lie exactly on *)
(* the band's ends and nothing is listed.                                  *)
C5_Witness ==
    /\ IsCheckCall("check_outliers")
    /\ call.args = <<<<"A">>, <<1, 1>>>>
    /\ df.dtypes["A"] = Float64
    /\ df.data["A"] = <<Some(0), Some(1), Some(2)>>
    /\ call.value[1]["A"] = << >>

(* C6: a threshold outside [0, 1] and a negative n_std are rejected with   *)
(* InvalidParameterError, and no entry is written for such a call.         *)
C6_OutOfRangeRejected ==
    /\ (call.op = "check_missing_values" /\ ~InRange01(call.args[1]))
           => call.outcome = "InvalidParameterError"
    /\ (call.op = "check_outliers" /\ call.args[2][1] < 0)
           => call.outcome = "InvalidParameterError"
    /\ lastArgs["missing_values"] # None
           => InRange01(lastArgs["missing_values"][1][1])
    /\ lastArgs["outliers"] # None => lastArgs["outliers"][1][2][1] >= 0

NamesAbsentColumn(names) == \E i \in 1..Len(names) : names[i] \notin ColSet

(* C7: check_duplicates and check_outliers fail with a column-not-found    *)
(* error when a requested name is not a column, and the failed call leaves *)
(* the store as it was.                                                    *)
C7_AbsentColumnFails ==
    [][ /\ (call'.op = "check_duplicates" /\ call'.args[1] # None
              /\ NamesAbsentColumn(call'.args[1][1]))
            => (call'.outcome = "KeyError" /\ UNCHANGED validation_results)
        /\ (call'.op = "check_outliers" /\ NamesAbsentColumn(call'.args[1]))
            => (call'.outcome = "KeyError" /\ UNCHANGED validation_results)
      ]_vars

(* C8: check_outliers over existing columns has an entry exactly for the   *)
(* requested columns of numeric category; textual, boolean and temporal    *)
(* columns get none; status is true iff every list is empty.               *)
C8_OnlyNumericCategoryGetsEntry ==
    IsCheckCall("check_outliers") =>
        /\ DOMAIN call.value[1] =
               {c \in {call.args[1][i] : i \in 1..Len(call.args[1])} :
                    NumericCategory(df.dtypes[c])}
        /\ validation_results["outliers"].status
               <=> \A c \in DOMAIN call.value[1] : call.value[1][c] = << >>

(* C9: validate_schema returns the expected names that are absent from the *)
(* frame or whose dtype string differs from the expected one, each once,   *)
(* in the order of expected; status is true iff the list is empty.         *)
C9_SchemaMismatchesInOrder ==
    IsCheckCall("validate_schema") =>
        LET expected == call.args[1]
            result == call.value[1]
            bad == {i \in 1..Len(expected) :
                       \/ expected[i][1] \notin ColSet
                       \/ DtypeStr(df.dtypes[expected[i][1]]) # expected[i][2]}
        IN  /\ Len(result) = Cardinality(bad)
            /\ \A i \in bad :
                   result[Cardinality({b \in bad : b <= i})] = expected[i][1]
            /\ validation_results["schema"].details.mismatched_columns = result
            /\ validation_results["schema"].status <=> result = << >>

(* A present column of another dtype listed after an absent one.           *)
C9_Witness ==
    /\ IsCheckCall("validate_schema")
    /\ call.args[1] = <<<<"Z", "int64">>, <<"A", "int32">>>>
    /\ df.dtypes["A"] = Int64
    /\ call.value[1] = <<"Z", "A">>

SummaryChecks == Deref(summary[1].checks)

(* C10: get_validation_summary changes neither the store nor the frame; a  *)
(* returned summary's checks stay the entries stored when it was taken,    *)
(* so its overall_status stays the AND of the statuses in its checks.      *)
C10_SummaryIsSnapshot ==
    /\ [][ /\ call'.op = "get_validation_summary"
               => UNCHANGED <<validation_results, df>>
           /\ (summary # None /\ summary' = summary)
               => SummaryChecks' = SummaryChecks ]_vars
    /\ [](summary # None =>
             summary[1].overall_status
                 = \A k \in DOMAIN SummaryChecks : SummaryChecks[k].status)

====
